---- MODULE Spec2Model ----
(***************************************************************************)
(* lkmlstyle: the style checker for LookML.                                *)
(*                                                                         *)
(* The model covers lkmlstyle/check.py (track_lineage, StyleCheckVisitor,  *)
(* choose_rules, check) and lkmlstyle/rules.py (the rule classes, the      *)
(* predicate functions and the rule catalogue ALL_RULES).                  *)
(*                                                                         *)
(* Strings are sequences of one-character strings, so that str.endswith,   *)
(* str comparison and the regular expressions of the catalogue work on     *)
(* characters as they do in Python.  An Optional[str] is a sequence of     *)
(* length 0 (None) or 1 (the string).                                      *)
(*                                                                         *)
(* The two files do not fit together.  The visitor of check.py calls      *)
(* rule.applies_to(node) and rule.followed_by(node[, self.prev]) and       *)
(* negates what followed_by returns; rules.py declares                     *)
(* applies_to(node, lineage) and followed_by(node, context), the latter    *)
(* returning the pair (bool, context).  In the visitor, therefore, the     *)
(* first rule that selects a node ends the check with TypeError at         *)
(* check.py:51.  The methods of the rules are also modelled as rules.py    *)
(* declares them, called directly with a lineage and a NodeContext.        *)
(***************************************************************************)
EXTENDS Integers, Sequences, FiniteSets, TLC

VARIABLES
    pc,             \* "idle", "visiting", "done" (check returned), "error" (check raised);
                    \* "chosen" and "resolved" after choose_rules and resolve_overrides
    all_rules,      \* check.py:73       the dict of rules by code choose_rules is given
    text,           \* check.py:97       the parsed tree (a DocumentNode)
    select,         \* check.py:95       the select tuple given to check
    ignore,         \* check.py:94       the ignore tuple given to check
    rules,          \* check.py:34       StyleCheckVisitor.rules
    lineage,        \* check.py:35       StyleCheckVisitor._lineage
    violations,     \* check.py:36       StyleCheckVisitor.violations
    prev,           \* check.py:37       StyleCheckVisitor.prev
    context,        \* rules.py:12       the NodeContext a caller of followed_by holds
    returned,       \* what the last direct call of a rule's methods returned
    stack,          \* the active calls of _visit: the node and the next child of its loop
    evals,          \* history: one record per (node, selected rule) of the loop at check.py:49
    visited,        \* history: the line of every node _visit evaluated, in order
    custom_rules,   \* the custom rules given to resolve_overrides
    resolved,       \* the rule set resolve_overrides returned
    other,          \* check.py:98       the visitor of a second invocation of check
    load            \* rules.py:615      the loop that loads a list of rules: the list,
                    \* the position in it, and what it built or raised

vars == <<pc, all_rules, text, select, ignore, rules, lineage, violations, prev,
          context, returned, stack, evals, visited, custom_rules, resolved, other, load>>

-----------------------------------------------------------------------------
(* Characters and strings *)

\* The characters the model uses, in code point order.
Ascii ==
    <<" ", "$", ".", "/",
      "0", "1", "2", "3", "4", "5", "6", "7", "8", "9",
      "A", "B", "C", "D", "E", "F", "G", "H", "I", "J", "K", "L", "M",
      "N", "O", "P", "Q", "R", "S", "T", "U", "V", "W", "X", "Y", "Z",
      "_",
      "a", "b", "c", "d", "e", "f", "g", "h", "i", "j", "k", "l", "m",
      "n", "o", "p", "q", "r", "s", "t", "u", "v", "w", "x", "y", "z",
      "{", "}">>

Ord(c) == CHOOSE i \in 1..Len(Ascii) : Ascii[i] = c

IsUpper(c) == Ord(c) >= Ord("A") /\ Ord(c) <= Ord("Z")
IsLowerOrDigitOrUnderscore(c) ==
    \/ Ord(c) >= Ord("a") /\ Ord(c) <= Ord("z")
    \/ Ord(c) >= Ord("0") /\ Ord(c) <= Ord("9")
    \/ c = "_"

\* re.IGNORECASE folds the case of both sides
Fold(c) == IF IsUpper(c) THEN Ascii[Ord(c) - Ord("A") + Ord("a")] ELSE c
FoldStr(s) == [i \in 1..Len(s) |-> Fold(s[i])]

\* str.endswith(suffix) for one suffix
EndsWith(s, suffix) ==
    /\ Len(suffix) <= Len(s)
    /\ SubSeq(s, Len(s) - Len(suffix) + 1, Len(s)) = suffix

StartsWith(s, prefix) ==
    /\ Len(prefix) <= Len(s)
    /\ SubSeq(s, 1, Len(prefix)) = prefix

Contains(s, part) ==
    \E i \in 1..(Len(s) - Len(part) + 1) : SubSeq(s, i, i + Len(part) - 1) = part

\* Python's a > b on str: by code point, a proper prefix is the smaller
StrGreater(a, b) ==
    \E i \in 1..Len(a) :
        /\ \A j \in 1..(i - 1) : j <= Len(b) /\ a[j] = b[j]
        /\ i - 1 <= Len(b)
        /\ \/ i > Len(b)
           \/ Ord(a[i]) > Ord(b[i])

\* ".".join(parts)
RECURSIVE Join(_)
Join(parts) ==
    IF Len(parts) = 0 THEN <<>>
    ELSE IF Len(parts) = 1 THEN parts[1]
    ELSE parts[1] \o <<".">> \o Join(Tail(parts))

None == <<>>
Some(x) == <<x>>

-----------------------------------------------------------------------------
(* String literals of the catalogue and of the documents *)

s_view == <<"v", "i", "e", "w">>
s_dimension == <<"d", "i", "m", "e", "n", "s", "i", "o", "n">>
s_dimension_group == <<"d", "i", "m", "e", "n", "s", "i", "o", "n", "_", "g", "r", "o", "u", "p">>
s_measure == <<"m", "e", "a", "s", "u", "r", "e">>
s_explore == <<"e", "x", "p", "l", "o", "r", "e">>
s_derived_table == <<"d", "e", "r", "i", "v", "e", "d", "_", "t", "a", "b", "l", "e">>
s_sql == <<"s", "q", "l">>
s_type == <<"t", "y", "p", "e">>
s_primary_key == <<"p", "r", "i", "m", "a", "r", "y", "_", "k", "e", "y">>
s_sql_table_name == <<"s", "q", "l", "_", "t", "a", "b", "l", "e", "_", "n", "a", "m", "e">>
s_view_label == <<"v", "i", "e", "w", "_", "l", "a", "b", "e", "l">>
s_label == <<"l", "a", "b", "e", "l">>
s_hidden == <<"h", "i", "d", "d", "e", "n">>
s_description == <<"d", "e", "s", "c", "r", "i", "p", "t", "i", "o", "n">>
s_fields == <<"f", "i", "e", "l", "d", "s">>
s_yes == <<"y", "e", "s">>
s_count == <<"c", "o", "u", "n", "t">>
s_string == <<"s", "t", "r", "i", "n", "g">>
s_abc == <<"a", "b", "c">>
s_abd == <<"a", "b", "d">>
s_bcd == <<"b", "c", "d">>
s_xyz == <<"x", "y", "z">>
s_pk == <<"p", "k">>
s_Abd == <<"A", "b", "d">>
s_users == <<"u", "s", "e", "r", "s">>
s_count_users == <<"c", "o", "u", "n", "t", "_", "u", "s", "e", "r", "s">>
s_test == <<"t", "e", "s", "t">>
s_orders == <<"a", "n", "a", "l", "y", "t", "i", "c", "s", ".", "o", "r", "d", "e", "r", "s">>
s_sessions == <<"a", "n", "a", "l", "y", "t", "i", "c", "s", ".", "s", "e", "s", "s", "i", "o", "n", "s">>
s_select_1 == <<"s", "e", "l", "e", "c", "t", " ", "1">>
s_TABLE_x == <<"$", "{", "T", "A", "B", "L", "E", "}", ".", "x">>
s_ref_x == <<"$", "{", "x", "}">>
s_Users == <<"U", "s", "e", "r", "s">>
s_Is_Yes_No == <<"I", "s", " ", "Y", "e", "s", "/", "N", "o">>

-----------------------------------------------------------------------------
(* Syntax nodes (lkml.tree, as the checker reads them): cls is the node     *)
(* class, type the key token (None for a document, a container or a token), *)
(* name the name token of a block, value the value token of a pair or the   *)
(* text of a token, children the node's children property.                  *)

Node(cls, type, name, value, children) ==
    [cls |-> cls, type |-> type, name |-> name, value |-> value,
     children |-> children, line |-> 0]

SyntaxToken(value)      == Node("token", None, None, value, <<>>)
PairNode(type, value)   == Node("pair", Some(type), None, value, <<>>)
ContainerNode(items)    == Node("container", None, None, <<>>, items)
ListNode(type, items)   == Node("list", Some(type), None, <<>>, items)
\* a block's children property is its container alone
BlockNode(type, name, items) ==
    Node("block", Some(type), name, <<>>, <<ContainerNode(items)>>)
DocumentNode(items)     == Node("document", None, None, <<>>, <<ContainerNode(items)>>)

\* node.container.items of a block
Items(block) == block.children[1].children

-----------------------------------------------------------------------------
(* Predicate functions (rules.py:192-250).  A functools.partial is a record  *)
(* naming the function and its keyword arguments.                           *)

\* partial(block_has_valid_parameter, parameter_name=..., value=..., negative=...)
BlockParam(parameter_name, value, negative) ==
    [fn |-> "block_has_valid_parameter", parameter_name |-> parameter_name,
     value |-> value, negative |-> negative]

\* partial(node_has_at_least_one_valid_child, is_valid=partial(block_has_valid_parameter, ...))
AnyChild(parameter_name, value) ==
    [fn |-> "node_has_at_least_one_valid_child", parameter_name |-> parameter_name,
     value |-> value, negative |-> FALSE]

\* the closure is_valid_param of block_has_valid_parameter
IsValidParam(parameter_name, value) ==
    [fn |-> "is_valid_param", parameter_name |-> parameter_name,
     value |-> value, negative |-> FALSE]

get_child_by_type(node, node_type) ==
    LET items == Items(node)
        hits  == {i \in 1..Len(items) : items[i].type = Some(node_type)}
    IN  IF hits = {} THEN None
        ELSE Some(items[CHOOSE i \in hits : \A j \in hits : i <= j])

node_has_valid_type(node, value) == node.type = Some(value)

pair_has_valid_value(pair, value) == pair.value = value

\* rules.py:233-247; a value of None or "" is not tested
is_valid_param(node, parameter_name, value) ==
    /\ node.cls \in {"block", "pair", "list"}
    /\ node_has_valid_type(node, parameter_name)
    /\ \/ value = None
       \/ value = Some(<<>>)
       \/ /\ node.cls = "pair"
          /\ pair_has_valid_value(node, value[1])

RECURSIVE node_has_at_least_one_valid_child(_, _)
RECURSIVE block_has_valid_parameter(_, _, _, _)
RECURSIVE Call(_, _)

node_has_at_least_one_valid_child(node, is_valid) ==
    \E i \in 1..Len(node.children) :
        LET child == node.children[i]
        IN  IF child.cls = "container"
            THEN node_has_at_least_one_valid_child(child, is_valid)
            ELSE Call(is_valid, child)

\* block_has_valid_parameter with negative applied to a node that is no block
block_has_valid_parameter_NegatesAnyNode(block, parameter_name, value, negative) ==
    LET valid == /\ block.cls = "block"
                 /\ node_has_at_least_one_valid_child(
                        block, IsValidParam(parameter_name, value))
    IN  IF negative THEN ~valid ELSE valid

block_has_valid_parameter(block, parameter_name, value, negative) ==
    IF block.cls # "block" THEN FALSE
    ELSE LET valid == node_has_at_least_one_valid_child(
                          block, IsValidParam(parameter_name, value))
         IN  IF negative THEN ~valid ELSE valid

\* calling a partial on a node
Call(p, node) ==
    CASE p.fn = "is_valid_param" ->
            is_valid_param(node, p.parameter_name, p.value)
      [] p.fn = "block_has_valid_parameter" ->
            block_has_valid_parameter(node, p.parameter_name, p.value, p.negative)
      [] p.fn = "node_has_at_least_one_valid_child" ->
            node_has_at_least_one_valid_child(
                node, BlockParam(p.parameter_name, p.value, p.negative))

-----------------------------------------------------------------------------
(* Rules (rules.py:20-189).  One record shape for the four rule classes;    *)
(* the fields a class does not declare hold their defaults.  A regular      *)
(* expression is the record [op, alts, ignorecase]:                         *)
(*    "snake"   ^[_a-z0-9]+$                                                *)
(*    "prefix"  ^(?:alt|alt)     "suffix"  (?:alt|alt)$                     *)
(*    "search"  alt anywhere     "full"    ^alt$                            *)

NoRegex   == [op |-> "none", alts |-> <<>>, ignorecase |-> FALSE]
NoPartial == [fn |-> "none", parameter_name |-> <<>>, value |-> None, negative |-> FALSE]

Regex(op, alts) == [op |-> op, alts |-> alts, ignorecase |-> FALSE]
RegexI(op, alts) == [op |-> op, alts |-> alts, ignorecase |-> TRUE]

Rule(cls, title, code, sel, filters) ==
    [cls |-> cls, title |-> title, code |-> code, select |-> sel, filters |-> filters,
     regex |-> NoRegex, negative |-> FALSE, criteria |-> NoPartial,
     alphabetical |-> FALSE, is_first |-> FALSE, use_key |-> TRUE, order |-> <<>>]

PatternMatchRule(title, code, sel, filters, regex, negative) ==
    [Rule("PatternMatchRule", title, code, sel, filters)
        EXCEPT !.regex = regex, !.negative = negative]

ParameterRule(title, code, sel, filters, criteria, negative) ==
    [Rule("ParameterRule", title, code, sel, filters)
        EXCEPT !.criteria = criteria, !.negative = negative]

OrderRule(title, code, sel, filters, alphabetical, is_first, use_key, order) ==
    [Rule("OrderRule", title, code, sel, filters)
        EXCEPT !.alphabetical = alphabetical, !.is_first = is_first,
               !.use_key = use_key, !.order = order]

DuplicateViewRule(title, code, sel, filters) ==
    Rule("DuplicateViewRule", title, code, sel, filters)

\* Rule.selects
selects(rule, lin) ==
    \E i \in 1..Len(rule.select) : EndsWith(lin, rule.select[i])

\* all(is_filter_valid(node) for is_filter_valid in self.filters)
FiltersHold(rule, node) ==
    \A i \in 1..Len(rule.filters) : Call(rule.filters[i], node)

\* Rule.applies_to
applies_to(rule, node, lin) ==
    selects(rule, lin) /\ FiltersHold(rule, node)

\* get_node_value giving the key of a block in place of its name
get_node_value_KeyOfBlock(node) ==
    IF node.cls = "pair" THEN Some(node.value)
    ELSE IF node.cls = "block" /\ node.name # None THEN node.type
    ELSE None

\* Rule.get_node_value
get_node_value(node) ==
    IF node.cls = "pair" THEN Some(node.value)
    ELSE IF node.cls = "block" /\ node.name # None THEN node.name
    ELSE None

\* OrderRule.get_node_value
OrderRule_get_node_value(rule, node) ==
    IF node.cls = "pair"
    THEN (IF rule.use_key THEN node.type ELSE Some(node.value))
    ELSE IF node.cls = "block" /\ node.name # None THEN node.name
    ELSE None

\* self.pattern.search(string)
Search(regex, string) ==
    LET s == IF regex.ignorecase THEN FoldStr(string) ELSE string
    IN  CASE regex.op = "snake" ->
                /\ Len(s) >= 1
                /\ \A i \in 1..Len(s) : IsLowerOrDigitOrUnderscore(s[i])
          [] regex.op = "prefix" ->
                \E i \in 1..Len(regex.alts) : StartsWith(s, regex.alts[i])
          [] regex.op = "suffix" ->
                \E i \in 1..Len(regex.alts) : EndsWith(s, regex.alts[i])
          [] regex.op = "search" ->
                \E i \in 1..Len(regex.alts) : Contains(s, regex.alts[i])
          [] regex.op = "full" ->
                \E i \in 1..Len(regex.alts) : s = regex.alts[i]

\* _matches without the negative flag
PatternMatchRule_matches_NeverInverted(rule, string) == Search(rule.regex, string)

\* PatternMatchRule._matches
PatternMatchRule_matches(rule, string) ==
    LET matched == Search(rule.regex, string)
    IN  IF rule.negative THEN ~matched ELSE matched

\* The truth value Python gives an Optional[str]: None and "" are false
Truthy(opt) == opt # None /\ opt # Some(<<>>)

\* rules.py:12-17.  previous_node is a dict from rule codes to nodes,
\* table_to_view a dict from table names to view names.
NodeContext(previous_node, table_to_view) ==
    [previous_node |-> previous_node, table_to_view |-> table_to_view]

\* dict.get(key): None for a key the dict does not hold
DictGet(d, key) == IF key \in DOMAIN d THEN Some(d[key]) ELSE None

\* What a followed_by of rules.py returns, the pair (bool, context): res is
\* "pass" (True), "fail" (False) or "raise" (an exception left the method);
\* table_to_view is the map of the returned context, whose previous_node no
\* followed_by writes.
Result(res, ttv) == [res |-> res, table_to_view |-> ttv]
Bool(b) == IF b THEN "pass" ELSE "fail"

PatternMatchRule_followed_by(rule, node, ttv) ==
    LET value == get_node_value(node)
    IN  IF value = None THEN Result("pass", ttv)
        ELSE Result(Bool(PatternMatchRule_matches(rule, value[1])), ttv)

ParameterRule_followed_by(rule, node, ttv) ==
    LET matched == Call(rule.criteria, node)
    IN  Result(Bool(IF rule.negative THEN ~matched ELSE matched), ttv)

\* OrderRule.followed_by; p is context.previous_node.get(self.code)
OrderRule_followed_by(rule, node, p, ttv) ==
    IF rule.alphabetical THEN
        IF p # None THEN
            LET node_value == OrderRule_get_node_value(rule, node)
                prev_value == OrderRule_get_node_value(rule, p[1])
            IN  IF Truthy(node_value) /\ Truthy(prev_value)
                THEN Result(Bool(StrGreater(node_value[1], prev_value[1])), ttv)
                ELSE Result("raise", ttv)
        ELSE Result("pass", ttv)
    ELSE IF rule.is_first THEN
        Result(Bool(p = None), ttv)
    ELSE IF Len(rule.order) > 0 THEN
        IF p # None
        \* set((prev value, node value)) in set(self.order): the order holds
        \* strings, and no string equals a set
        THEN Result(Bool(FALSE), ttv)
        ELSE Result(Bool(OrderRule_get_node_value(rule, node) = Some(rule.order[1])), ttv)
    ELSE Result("raise", ttv)

\* DuplicateViewRule.followed_by recording the view also when the table was seen
DuplicateViewRule_followed_by_Overwrites(rule, node, ttv) ==
    IF node.cls # "block" THEN Result("pass", ttv)
    ELSE IF node.name = None THEN Result("raise", ttv)
    ELSE LET view_name == node.name[1]
             sql_table_name_node == get_child_by_type(node, s_sql_table_name)
         IN  IF sql_table_name_node = None \/ sql_table_name_node[1].cls # "pair"
             THEN Result("raise", ttv)
             ELSE LET sql_table_name == sql_table_name_node[1].value
                  IN  IF sql_table_name \in DOMAIN ttv
                      THEN Result("fail", (sql_table_name :> view_name) @@ ttv)
                      ELSE Result("pass", ttv @@ (sql_table_name :> view_name))

\* DuplicateViewRule.followed_by
DuplicateViewRule_followed_by(rule, node, ttv) ==
    IF node.cls # "block" THEN Result("pass", ttv)
    ELSE IF node.name = None THEN Result("raise", ttv)
    ELSE LET view_name == node.name[1]
             sql_table_name_node == get_child_by_type(node, s_sql_table_name)
         IN  IF sql_table_name_node = None \/ sql_table_name_node[1].cls # "pair"
             THEN Result("raise", ttv)
             ELSE LET sql_table_name == sql_table_name_node[1].value
                  IN  IF sql_table_name \in DOMAIN ttv
                      THEN Result("fail", ttv)
                      ELSE Result("pass", ttv @@ (sql_table_name :> view_name))

\* rule.followed_by(node, context), by the class of the rule; an OrderRule
\* reads context.previous_node.get(self.code) (rules.py:130)
followed_by(rule, node, cx) ==
    CASE rule.cls = "PatternMatchRule" ->
            PatternMatchRule_followed_by(rule, node, cx.table_to_view)
      [] rule.cls = "ParameterRule" ->
            ParameterRule_followed_by(rule, node, cx.table_to_view)
      [] rule.cls = "OrderRule" ->
            OrderRule_followed_by(rule, node, DictGet(cx.previous_node, rule.code),
                                  cx.table_to_view)
      [] rule.cls = "DuplicateViewRule" ->
            DuplicateViewRule_followed_by(rule, node, cx.table_to_view)

-----------------------------------------------------------------------------
(* The rule catalogue (rules.py:256-612), in the order of ALL_RULES.  The   *)
(* rationale of a rule is text the checker never reads; it is left out.     *)

TypeIs(value)      == BlockParam(s_type, Some(value), FALSE)
NotHidden          == BlockParam(s_hidden, Some(s_yes), TRUE)
IsPrimaryKey       == BlockParam(s_primary_key, Some(s_yes), FALSE)

R_D101 == PatternMatchRule("Dimension name not in snake case", "D101",
              <<s_dimension, s_dimension_group>>, <<>>, Regex("snake", <<>>), FALSE)
R_M103 == PatternMatchRule("Measure name not in snake case", "M103",
              <<s_measure>>, <<>>, Regex("snake", <<>>), FALSE)
R_V100 == PatternMatchRule("View name not in snake case", "V100",
              <<s_view>>, <<>>, Regex("snake", <<>>), FALSE)
R_M100 == PatternMatchRule("Name of count measure doesn't start with 'count_'", "M100",
              <<s_measure>>, <<TypeIs(s_count)>>, Regex("prefix", <<<<"c", "o", "u", "n", "t", "_">>>>), FALSE)
R_M101 == PatternMatchRule("Name of sum measure doesn't start with 'total_'", "M101",
              <<s_measure>>, <<TypeIs(<<"s", "u", "m">>)>>, Regex("prefix", <<<<"t", "o", "t", "a", "l", "_">>>>), FALSE)
R_M102 == PatternMatchRule("Name of average measure doesn't start with 'avg_'", "M102",
              <<s_measure>>, <<TypeIs(<<"a", "v", "e", "r", "a", "g", "e">>)>>,
              Regex("prefix", <<<<"a", "v", "g", "_">>, <<"a", "v", "e", "r", "a", "g", "e", "_">>>>), FALSE)
R_D100 == PatternMatchRule("Yesno dimension doesn't start with 'is_' or 'has_'", "D100",
              <<s_dimension>>, <<TypeIs(<<"y", "e", "s", "n", "o">>)>>, Regex("prefix", <<<<"i", "s", "_">>, <<"h", "a", "s", "_">>>>), FALSE)
R_M110 == PatternMatchRule("Measure references table column directly", "M110",
              <<<<"m", "e", "a", "s", "u", "r", "e", ".", "s", "q", "l">>>>, <<>>, Regex("search", <<<<"$", "{", "T", "A", "B", "L", "E", "}">>>>), TRUE)
R_D300 == PatternMatchRule("Redundant type specification for string dimension", "D300",
              <<<<"d", "i", "m", "e", "n", "s", "i", "o", "n", ".", "t", "y", "p", "e">>>>, <<>>, Regex("full", <<s_string>>), TRUE)
R_J100 == PatternMatchRule("Redundant type specification for join", "J100",
              <<<<"j", "o", "i", "n", ".", "t", "y", "p", "e">>>>, <<>>, Regex("full", <<<<"l", "e", "f", "t", "_", "o", "u", "t", "e", "r">>>>), TRUE)
R_D200 == PatternMatchRule("Dimension group name ends with redundant word", "D200",
              <<s_dimension_group>>, <<>>,
              Regex("suffix", <<<<"_", "a", "t">>, <<"_", "d", "a", "t", "e">>, <<"_", "t", "i", "m", "e">>>>), TRUE)
R_E100 == ParameterRule("Explore doesn't declare fields", "E100",
              <<s_explore>>, <<>>, BlockParam(s_fields, None, FALSE), FALSE)
R_D301 == ParameterRule("Visible dimension missing description", "D301",
              <<s_dimension, s_dimension_group>>, <<NotHidden>>,
              BlockParam(s_description, None, FALSE), FALSE)
R_M112 == ParameterRule("Visible measure missing description", "M112",
              <<s_measure>>, <<NotHidden>>, BlockParam(s_description, None, FALSE), FALSE)
R_V110 == ParameterRule("View must define at least one primary key dimension", "V110",
              <<s_view>>, <<>>, AnyChild(s_primary_key, Some(s_yes)), FALSE)
R_V111 == ParameterRule("View missing view label", "V111",
              <<s_view>>, <<>>, AnyChild(s_view_label, None), FALSE)
R_D302 == ParameterRule("Primary key dimension not hidden", "D302",
              <<s_dimension>>, <<IsPrimaryKey>>,
              BlockParam(s_hidden, Some(s_yes), FALSE), FALSE)
R_LAMS_F3 == ParameterRule("Count measure doesn't specify a filter", "LAMS:F3",
              <<s_measure>>, <<TypeIs(s_count)>>, BlockParam(<<"f", "i", "l", "t", "e", "r", "s">>, None, FALSE), FALSE)
R_D106 == OrderRule("Dimension not in alphabetical order", "D106",
              <<s_dimension, s_dimension_group>>, <<>>, TRUE, FALSE, TRUE, <<>>)
R_M106 == OrderRule("Measure not in alphabetical order", "M106",
              <<s_measure>>, <<>>, TRUE, FALSE, TRUE, <<>>)
R_D107 == OrderRule("Primary key dimension not the first dimension in this view", "D107",
              <<s_dimension>>, <<IsPrimaryKey>>, FALSE, TRUE, TRUE, <<>>)
R_D303 == PatternMatchRule("Dimension label includes redundant \"Yes/No\"", "D303",
              <<<<"d", "i", "m", "e", "n", "s", "i", "o", "n", ".", "l", "a", "b", "e", "l">>>>, <<>>, RegexI("search", <<<<"y", "e", "s", "/", "n", "o">>>>), TRUE)
R_V112 == DuplicateViewRule("View uses the same table as another view", "V112",
              <<s_view>>, <<>>)

ALL_RULES ==
    <<R_D101, R_M103, R_V100, R_M100, R_M101, R_M102, R_D100, R_M110, R_D300,
      R_J100, R_D200, R_E100, R_D301, R_M112, R_V110, R_V111, R_D302, R_LAMS_F3,
      R_D106, R_M106, R_D107, R_D303, R_V112>>

\* A dict from code to rule is the sequence of its values in insertion order.
Keys(d) == {d[i].code : i \in 1..Len(d)}
Get(d, code) == d[CHOOSE i \in 1..Len(d) : d[i].code = code]

\* the loop assigning RULES_BY_CODE[rule.code] whatever the dict holds
RECURSIVE BuildByCode_Overwrites(_, _)
BuildByCode_Overwrites(list, d) ==
    IF Len(list) = 0 THEN [raised |-> None, by_code |-> d]
    ELSE BuildByCode_Overwrites(
             Tail(list),
             IF Head(list).code \in Keys(d)
             THEN [i \in 1..Len(d) |->
                      IF d[i].code = Head(list).code THEN Head(list) ELSE d[i]]
             ELSE Append(d, Head(list)))

\* rules.py:614-619: the loop that fills the catalogue by code, from the dict d
\* on; a code listed twice raises KeyError (raised holds the code) and the
\* import of the module fails
RECURSIVE BuildByCode(_, _)
BuildByCode(list, d) ==
    IF Len(list) = 0 THEN [raised |-> None, by_code |-> d]
    ELSE IF Head(list).code \in Keys(d) THEN [raised |-> Some(Head(list).code), by_code |-> d]
    ELSE BuildByCode(Tail(list), Append(d, Head(list)))

RULES_BY_CODE == BuildByCode(ALL_RULES, <<>>).by_code

\* tests/test_check.py:10-14: the fixture rules_by_code
rules_by_code ==
    SelectSeq(RULES_BY_CODE, LAMBDA r : r.code \in {"M106", "D100", "M110", "V100"})

-----------------------------------------------------------------------------
(* choose_rules (check.py:72-89) *)

ToSet(t) == {t[i] : i \in 1..Len(t)}

\* The orders in which `for code in codes' (check.py:87) can yield a set of
\* str: the order follows the hashes of the process, so every order of the
\* set can come.
IterationOrders(codes) ==
    {p \in [1..Cardinality(codes) -> codes] :
        \A i, j \in 1..Cardinality(codes) : i # j => p[i] # p[j]}

\* set(select or all_codes) - set(ignore or tuple()), within all_codes
ChosenCodes(by_code, ign, sel) ==
    LET all_codes == Keys(by_code)
    IN  all_codes \cap ((IF Len(sel) > 0 THEN ToSet(sel) ELSE all_codes) \ ToSet(ign))

\* The tuples choose_rules can return.
choose_rules(by_code, ign, sel) ==
    LET codes == ChosenCodes(by_code, ign, sel)
    IN  IF codes = {} THEN {by_code}
        ELSE {[i \in 1..Len(order) |-> Get(by_code, order[i])] :
                 order \in IterationOrders(codes)}

-----------------------------------------------------------------------------
(* Documents: the trees lkml.parse returns (check.py:97).                   *)

\* Line numbers as the parser gives them: every item of a container on a line
\* of its own, after the line of the block that holds the container.
RECURSIVE WithLines(_, _, _)
WithLines(node, base, stride) ==
    IF node.cls = "container"
    THEN [node EXCEPT !.children =
              [i \in 1..Len(node.children) |->
                  WithLines(node.children[i], base + i * stride, stride \div 10)]]
    ELSE [node EXCEPT !.line = base,
                      !.children =
              [i \in 1..Len(node.children) |->
                  WithLines(node.children[i], base, stride)]]

Parse(items) == WithLines(DocumentNode(items), 0, 100)

\* The nodes of a tree, each with the types of the typed nodes from the root
\* down to it (what track_lineage has pushed when the node is visited) and
\* the typed node above it.
RECURSIVE Walk(_, _, _)
Walk(node, anc, parent) ==
    LET own == IF node.type # None THEN Append(anc, node.type[1]) ELSE anc
        up  == IF node.type # None THEN Some(node) ELSE parent
    IN  {[node |-> node, kinds |-> own, parent |-> parent]}
        \cup UNION {Walk(node.children[i], own, up) : i \in 1..Len(node.children)}

\* The longest run of fields, and of views, of a generated document.
MaxFields == 2
MaxViews == 2

PrimaryKeyYes == PairNode(s_primary_key, s_yes)

\* Fields, as the tests of tests/test_rules.py and tests/test_utils.py write them.
FieldPool ==
    <<BlockNode(s_dimension, Some(s_abc), <<>>),
      BlockNode(s_dimension, Some(s_abd), <<PrimaryKeyYes>>),
      BlockNode(s_dimension_group, Some(s_bcd), <<>>),
      BlockNode(s_dimension, Some(s_Abd),
                <<PairNode(s_type, s_string), PairNode(s_sql, s_TABLE_x),
                  PairNode(s_label, s_Is_Yes_No)>>),
      \* "dimension: { hidden: yes primary_key: yes }" parses to a block without a name
      BlockNode(s_dimension, None, <<PairNode(s_hidden, s_yes), PrimaryKeyYes>>),
      BlockNode(s_measure, Some(s_users),
                <<PairNode(s_type, s_count), PairNode(s_sql, s_TABLE_x)>>),
      BlockNode(s_explore, Some(s_users),
                <<ListNode(s_fields, <<SyntaxToken(s_abc), SyntaxToken(s_xyz)>>)>>)>>

ViewNames == <<s_abc, s_xyz, s_test, s_users>>

\* The bodies of views.
ViewPool ==
    <<<<PairNode(s_sql_table_name, s_orders),
        BlockNode(s_dimension, Some(s_abc), <<>>),
        BlockNode(s_dimension, Some(s_pk), <<PrimaryKeyYes>>)>>,
      <<PairNode(s_sql_table_name, s_sessions),
        BlockNode(s_dimension, Some(s_pk), <<PrimaryKeyYes>>),
        BlockNode(s_measure, Some(s_users),
                  <<PairNode(s_type, s_count), PairNode(s_sql, s_TABLE_x)>>)>>,
      <<BlockNode(s_derived_table, None, <<PairNode(s_sql, s_select_1)>>)>>,
      <<PairNode(s_view_label, s_Users), PairNode(s_sql_table_name, s_sessions)>>>>

SeqsUpTo(n, m) == UNION {[1..k -> 1..m] : k \in 0..n}

FieldDocs ==
    {Parse([i \in 1..Len(c) |-> FieldPool[c[i]]]) : c \in SeqsUpTo(MaxFields, Len(FieldPool))}

ViewDocs ==
    {Parse([i \in 1..Len(c) |->
               BlockNode(s_view, Some(ViewNames[((i - 1) % Len(ViewNames)) + 1]),
                         ViewPool[c[i]])]) :
        c \in SeqsUpTo(MaxViews, Len(ViewPool))}

Dim(name) == BlockNode(s_dimension, Some(name), <<>>)
DimGroup(name) == BlockNode(s_dimension_group, Some(name), <<>>)
PkDim(name) == BlockNode(s_dimension, Some(name), <<PrimaryKeyYes>>)

\* tests/test_rules.py:212-264
TestDocs ==
    {Parse(<<Dim(s_abc), Dim(s_abd), DimGroup(s_bcd), Dim(s_xyz)>>),
     Parse(<<Dim(s_abc), DimGroup(s_xyz), Dim(s_abd), Dim(s_bcd)>>),
     Parse(<<DimGroup(s_bcd), PkDim(s_pk), Dim(s_abd), Dim(s_xyz)>>),
     Parse(<<Dim(s_abc), DimGroup(s_xyz), PkDim(s_abd), Dim(s_bcd)>>)}

\* tests/test_rules.py:9-20
MeasureDocs ==
    {Parse(<<BlockNode(s_measure, Some(s_users), <<PairNode(s_type, s_count)>>)>>),
     Parse(<<BlockNode(s_measure, Some(s_users), <<PairNode(s_type, <<"s", "u", "m">>)>>),
             BlockNode(s_measure, Some(s_users), <<PairNode(s_type, s_count)>>)>>),
     Parse(<<BlockNode(s_measure, Some(s_count_users),
                       <<PairNode(s_type, s_count), PairNode(s_sql, s_ref_x)>>)>>)}

Configs(sels) == {<<sel, <<>>>> : sel \in sels}

\* The select and ignore tuples check is called with, on documents of fields
\* and on documents of views.  Every call names the codes it selects: the
\* orders of a set of all the codes of the catalogue are too many to list.
\* Where ignore takes every selected code away, choose_rules returns the
\* whole catalogue in the order of the dict.
FieldConfigs ==
    Configs({<<"D106">>, <<"D107">>, <<"M110">>, <<"M100">>, <<"D303">>, <<"J100">>,
             <<"D101", "D106">>, <<"D107", "D302">>, <<"M110", "J100", "V100">>})

ViewConfigs ==
    Configs({<<"V112">>, <<"V111">>, <<"D107">>, <<"M110">>, <<"V112", "V100">>})
    \cup {<<<<"D107">>, <<"D107">>>>}

\* The calls of check: <<document, <<select, ignore>>>>
Calls ==
    ((FieldDocs \cup TestDocs \cup MeasureDocs) \X FieldConfigs)
    \cup (ViewDocs \X ViewConfigs)

-----------------------------------------------------------------------------
(* The visitor (check.py:13-69) *)

\* No second invocation of check, no list being loaded, no direct call made.
NoVisitor == [pc |-> "idle"]
NoLoad == [pc |-> "idle"]
NoCall == [pc |-> "idle"]

\* StyleCheckVisitor.lineage
Lineage(stk) == Join(stk)

\* _select_current_node comparing the whole lineage with the selector
SelectCurrentNode_WholeLineage(rule, lin) ==
    \E i \in 1..Len(rule.select) : lin = rule.select[i]

\* StyleCheckVisitor._select_current_node: str.endswith of the tuple rule.select
SelectCurrentNode(rule, lin) ==
    \E i \in 1..Len(rule.select) : EndsWith(lin, rule.select[i])

LineOf(p) == IF p = None THEN 0 ELSE p[1].line

\* The record of one turn of the loop at check.py:49: sel is what
\* _select_current_node returned, res is "none" for a rule not selected and
\* "raise" for a turn an exception ended.
Eval(rule, node, lin, sel, res, p) ==
    [code |-> rule.code, line |-> node.line, lin |-> lin,
     sel |-> sel, res |-> res, prev |-> LineOf(p)]

\* One turn of the loop at check.py:49-62, on the visitor's fields st.  For a
\* rule that selects the lineage the next thing done is rule.applies_to(node)
\* (check.py:51): the method is declared applies_to(self, node, lineage)
\* (rules.py:40), the call lacks an argument and raises TypeError before the
\* method runs.  The lines after it (followed_by at 53 and 55, the append at
\* 57 and self.prev = node at 62) stand behind a call that never returns, so
\* no turn appends a violation or assigns prev.
VisitRule(rule, node, lin, st) ==
    IF ~SelectCurrentNode(rule, lin)
    THEN [st EXCEPT !.evals = Append(@, Eval(rule, node, lin, FALSE, "none", st.prev))]
    ELSE [st EXCEPT !.evals = Append(@, Eval(rule, node, lin, TRUE, "raise", st.prev)),
                    !.raised = TRUE]

\* for rule in self.rules (check.py:49); an exception leaves the loop
RECURSIVE VisitRules(_, _, _, _, _)
VisitRules(rs, i, node, lin, st) ==
    IF i > Len(rs) \/ st.raised THEN st
    ELSE VisitRules(rs, i + 1, node, lin, VisitRule(rs[i], node, lin, st))

\* track_lineage and the head of _visit, for a node that is no token: the
\* lineage is pushed, and a node that is no container meets the rules.
Enter(rs, node, st) ==
    LET pushed == IF node.type # None THEN Append(st.lineage, node.type[1]) ELSE st.lineage
        st1 == [st EXCEPT !.lineage = pushed]
    IN  IF node.cls = "container" THEN st1
        ELSE VisitRules(rs, 1, node, Lineage(pushed),
                        [st1 EXCEPT !.visited = Append(@, node.line)])

Frame(node) == [node |-> node, next |-> 1]

Fields ==
    [lineage |-> lineage, violations |-> violations, prev |-> prev,
     evals |-> evals, visited |-> visited, raised |-> FALSE]

\* The visitor's fields after a call of _visit entered node.
Entered(rs, node, st, stk) ==
    LET st2 == Enter(rs, node, st)
    IN  /\ lineage' = st2.lineage
        /\ violations' = st2.violations
        /\ prev' = st2.prev
        /\ UNCHANGED <<context, returned>>
        /\ evals' = st2.evals
        /\ visited' = st2.visited
        /\ IF st2.raised
           THEN pc' = "error" /\ stack' = stk
           ELSE pc' = "visiting" /\ stack' = Append(stk, Frame(node))

Init ==
    /\ pc = "idle"
    /\ all_rules = RULES_BY_CODE
    /\ text = Parse(<<>>)
    /\ select = <<>>
    /\ ignore = <<>>
    /\ rules = <<>>
    /\ lineage = <<>>
    /\ violations = <<>>
    /\ prev = None
    /\ context = NodeContext(<<>>, <<>>)
    /\ returned = NoCall
    /\ stack = <<>>
    /\ evals = <<>>
    /\ visited = <<>>
    /\ custom_rules = <<>>
    /\ resolved = <<>>
    /\ other = NoVisitor
    /\ load = NoLoad

\* check (check.py:92-100): the rules are chosen, the visitor is built and the
\* document accepts it.
Check ==
    /\ pc = "idle"
    /\ \E call \in Calls :
         \E rs \in choose_rules(RULES_BY_CODE, call[2][2], call[2][1]) :
            /\ text' = call[1]
            /\ select' = call[2][1]
            /\ ignore' = call[2][2]
            /\ rules' = rs
            /\ Entered(rs, call[1], Fields, <<>>)
    /\ UNCHANGED <<other, load, all_rules, custom_rules, resolved>>

Top == stack[Len(stack)]
HasNext == pc = "visiting" /\ Len(stack) > 0 /\ Top.next <= Len(Top.node.children)
Advanced == [stack EXCEPT ![Len(stack)].next = @ + 1]

\* child.accept(self) for a child that is a node (check.py:64-66)
VisitChild ==
    /\ HasNext
    /\ Top.node.children[Top.next].cls # "token"
    /\ Entered(rules, Top.node.children[Top.next], Fields, Advanced)
    /\ UNCHANGED <<other, load, all_rules, text, select, ignore, rules, custom_rules, resolved>>

\* child.accept(self) for a token: _visit returns at check.py:45-46, and a
\* token has no type for track_lineage to push
VisitToken ==
    /\ HasNext
    /\ Top.node.children[Top.next].cls = "token"
    /\ stack' = Advanced
    /\ UNCHANGED <<other, load, pc, all_rules, text, select, ignore, rules, lineage, violations, prev,
                   context, returned, evals, visited, custom_rules, resolved>>

\* _visit returns: track_lineage pops what it pushed (check.py:25-26); when
\* the document's call returns, check returns the violations
Return ==
    /\ pc = "visiting"
    /\ Len(stack) > 0
    /\ Top.next > Len(Top.node.children)
    /\ lineage' = IF Top.node.type # None
                  THEN SubSeq(lineage, 1, Len(lineage) - 1) ELSE lineage
    /\ stack' = SubSeq(stack, 1, Len(stack) - 1)
    /\ pc' = IF Len(stack) = 1 THEN "done" ELSE "visiting"
    /\ UNCHANGED <<other, load, all_rules, text, select, ignore, rules, violations, prev, context, returned,
                   evals, visited, custom_rules, resolved>>

Next == Check \/ VisitChild \/ VisitToken \/ Return

Spec == Init /\ [][Next]_vars

-----------------------------------------------------------------------------
(* A visitor built on a rule tuple of the caller's (check.py:98-99):        *)
(* StyleCheckVisitor(rules=...) and tree.accept(visitor).  The tuples hold   *)
(* rules of the catalogue and rules the catalogue has no instance of: an     *)
(* OrderRule with a fixed order, a ParameterRule with negative=True and a    *)
(* PatternMatchRule that selects a list.                                     *)

R_O100 == OrderRule("Dimension not in the declared order", "O100",
              <<s_dimension, s_dimension_group>>, <<>>, FALSE, FALSE, TRUE,
              <<s_abc, s_abd, s_bcd>>)
R_N100 == ParameterRule("Dimension declares a label", "N100",
              <<s_dimension>>, <<>>, BlockParam(s_label, None, FALSE), TRUE)
R_P100 == PatternMatchRule("Explore fields not in snake case", "P100",
              <<<<"e", "x", "p", "l", "o", "r", "e", ".", "f", "i", "e", "l", "d", "s">>>>,
              <<>>, Regex("snake", <<>>), FALSE)

\* a rule that selects every label
R_L100 == PatternMatchRule("Label includes redundant \"Yes/No\"", "L100",
              <<s_label>>, <<>>, RegexI("search", <<<<"y", "e", "s", "/", "n", "o">>>>), TRUE)

VisitorRules ==
    {<<R_O100>>, <<R_N100, R_D303, R_D300>>, <<R_P100, R_E100, R_D101>>,
     <<R_M110, R_M100>>, <<R_D302>>}

VisitCalls ==
    ((FieldDocs \cup TestDocs \cup MeasureDocs) \X VisitorRules)
    \cup ((FieldDocs \cup ViewDocs) \X {<<R_L100>>})

Accept ==
    /\ pc = "idle"
    /\ \E call \in VisitCalls :
          /\ text' = call[1]
          /\ rules' = call[2]
          /\ Entered(call[2], call[1], Fields, <<>>)
    /\ UNCHANGED <<other, load, all_rules, select, ignore, custom_rules, resolved>>

NextVisit == Accept \/ VisitChild \/ VisitToken \/ Return

SpecVisit == Init /\ [][NextVisit]_vars

-----------------------------------------------------------------------------
(* The methods of a rule called as rules.py declares them:                  *)
(* rule.applies_to(node, lineage) and rule.followed_by(node, context), on    *)
(* the blocks, pairs and lists of a document of fields and a document of     *)
(* views, with a NodeContext that holds a previous node for the codes of     *)
(* the OrderRules, or none.  followed_by returns the context it was given;   *)
(* the caller keeps it for the next call.                                    *)

RuleDocs ==
    {Parse(FieldPool),
     Parse([i \in 1..Len(ViewPool) |-> BlockNode(s_view, Some(ViewNames[i]), ViewPool[i])])}

\* <<node, lineage>> for every block, pair and list of the documents
NodePool ==
    UNION {{[node |-> w.node, lineage |-> Join(w.kinds)] :
               w \in {v \in Walk(doc, <<>>, None) : v.node.cls \in {"block", "pair", "list"}}} :
           doc \in RuleDocs}

RulePool ==
    {R_D101, R_D106, R_D107, R_V111, R_V112, R_O100, R_N100, R_P100, R_L100}

OrderCodes == {r.code : r \in {q \in RulePool : q.cls = "OrderRule"}} \cup {"O200"}

\* The previous_node dicts of the contexts: empty, or one field of the
\* document of fields under the code of every OrderRule.
PreviousNodes ==
    {<<>>} \cup {[c \in OrderCodes |-> w.node] :
                    w \in {v \in NodePool :
                              v.lineage \in {s_dimension, s_dimension_group, s_measure}}}

InitRules ==
    /\ pc = "idle"
    /\ all_rules = RULES_BY_CODE
    /\ text = Parse(<<>>)
    /\ select = <<>>
    /\ ignore = <<>>
    /\ rules = <<>>
    /\ lineage = <<>>
    /\ violations = <<>>
    /\ prev = None
    /\ context \in {NodeContext(d, <<>>) : d \in PreviousNodes}
    /\ returned = NoCall
    /\ stack = <<>>
    /\ evals = <<>>
    /\ visited = <<>>
    /\ custom_rules = <<>>
    /\ resolved = <<>>
    /\ other = NoVisitor
    /\ load = NoLoad

\* What the two calls on a node return, and the context after them.
Returned(rule, w, cx) ==
    LET r == followed_by(rule, w.node, cx)
    IN  [pc |-> "returned", rule |-> rule, node |-> w.node, lineage |-> w.lineage,
         applies |-> applies_to(rule, w.node, w.lineage), res |-> r.res,
         table_to_view |-> r.table_to_view]

\* rule.applies_to(node, lineage); rule.followed_by(node, context).  Only a
\* DuplicateViewRule writes to the context it is given, so the calls that
\* come after a call of another rule are the calls that could come in its
\* place; a behaviour is a run of DuplicateViewRule calls and one more call.
CallRule ==
    /\ IF returned.pc = "idle" THEN TRUE ELSE returned.rule.cls = "DuplicateViewRule"
    /\ \E rule \in RulePool, w \in NodePool :
          /\ returned' = Returned(rule, w, context)
          /\ context' = [context EXCEPT !.table_to_view = returned'.table_to_view]
    /\ UNCHANGED <<pc, all_rules, text, select, ignore, rules, lineage, violations, prev,
                   stack, evals, visited, custom_rules, resolved, other, load>>

SpecRules == InitRules /\ [][CallRule]_vars

-----------------------------------------------------------------------------
(* Constructing an OrderRule (rules.py:100-114) and calling its followed_by. *)

\* OrderRule.__post_init__: more than one sort order raises ValueError
OrderRule_post_init(rule) ==
    LET n == (IF rule.alphabetical THEN 1 ELSE 0) + (IF rule.is_first THEN 1 ELSE 0)
             + (IF Len(rule.order) > 0 THEN 1 ELSE 0)
    IN  IF n > 1 THEN "ValueError" ELSE "constructed"

\* The keyword arguments OrderRule is constructed with
OrderArgs ==
    [alphabetical : BOOLEAN, is_first : BOOLEAN, order : {<<>>, <<s_abc, s_abd>>}]

Construct ==
    /\ load.pc = "idle"
    /\ \E a \in OrderArgs :
          LET rule == OrderRule("Dimension out of order", "O200", <<s_dimension>>, <<>>,
                                a.alphabetical, a.is_first, TRUE, a.order)
              made == OrderRule_post_init(rule)
          IN  /\ load' = [pc |-> made, args |-> a]
              /\ rules' = IF made = "constructed" THEN <<rule>> ELSE <<>>
    /\ UNCHANGED <<pc, all_rules, text, select, ignore, lineage, violations, prev,
                   context, returned, stack, evals, visited, custom_rules, resolved, other>>

\* rule.followed_by(node, context) of the rule constructed
CallConstructed ==
    /\ load.pc = "constructed"
    /\ \E w \in NodePool :
          /\ returned' = Returned(rules[1], w, context)
          /\ context' = [context EXCEPT !.table_to_view = returned'.table_to_view]
    /\ UNCHANGED <<pc, all_rules, text, select, ignore, rules, lineage, violations, prev,
                   stack, evals, visited, custom_rules, resolved, other, load>>

NextConstruct == Construct \/ CallConstructed

SpecConstruct == InitRules /\ [][NextConstruct]_vars

-----------------------------------------------------------------------------
(* Two invocations of check (check.py:92-100), each with a visitor of its   *)
(* own.  The first runs on the variables of the module, the second on the    *)
(* record other; their steps interleave node by node, and one may have       *)
(* finished before the other starts.                                         *)

\* The fields StyleCheckVisitor.__init__ sets shared with the visitor at work.
SharedFields ==
    [lineage |-> lineage, violations |-> violations, prev |-> prev,
     evals |-> <<>>, visited |-> <<>>, raised |-> FALSE]

\* StyleCheckVisitor.__init__ (check.py:31-37)
FreshFields ==
    [lineage |-> <<>>, violations |-> <<>>, prev |-> None,
     evals |-> <<>>, visited |-> <<>>, raised |-> FALSE]

TwoDocs ==
    {Parse(<<FieldPool[4], FieldPool[7]>>),
     Parse(<<Dim(s_abc), PkDim(s_abd)>>),
     Parse(<<BlockNode(s_view, Some(s_abc), ViewPool[4]),
             BlockNode(s_view, Some(s_xyz), ViewPool[4])>>),
     Parse(<<BlockNode(s_view, Some(s_test), <<PairNode(s_sql_table_name, s_orders)>>),
             BlockNode(s_view, Some(s_users), <<PairNode(s_sql_table_name, s_orders)>>)>>)}

TwoCalls == TwoDocs \X Configs({<<"D101", "D301">>, <<"D107">>, <<"V112">>, <<"M110">>})

\* The record of a visitor after a call of _visit entered node.
EnteredOther(v, node, stk) ==
    LET st2 == Enter(v.rules, node, v.st)
    IN  [v EXCEPT !.st = st2,
                  !.pc = IF st2.raised THEN "error" ELSE "visiting",
                  !.stack = IF st2.raised THEN stk ELSE Append(stk, Frame(node))]

CheckFirst ==
    /\ pc = "idle"
    /\ \E call \in TwoCalls :
         \E rs \in choose_rules(RULES_BY_CODE, call[2][2], call[2][1]) :
            /\ text' = call[1]
            /\ select' = call[2][1]
            /\ ignore' = call[2][2]
            /\ rules' = rs
            /\ Entered(rs, call[1], FreshFields, <<>>)
    /\ UNCHANGED <<other, load, all_rules, custom_rules, resolved>>

CheckSecond ==
    /\ other.pc = "idle"
    /\ \E call \in TwoCalls :
         \E rs \in choose_rules(RULES_BY_CODE, call[2][2], call[2][1]) :
            other' = EnteredOther([pc |-> "idle", text |-> call[1],
                                   select |-> call[2][1], ignore |-> call[2][2],
                                   rules |-> rs, st |-> FreshFields, stack |-> <<>>],
                                  call[1], <<>>)
    /\ UNCHANGED <<pc, all_rules, text, select, ignore, rules, lineage, violations, prev,
                   context, returned, stack, evals, visited, custom_rules, resolved, load>>

OtherTop == other.stack[Len(other.stack)]
OtherHasNext ==
    /\ other.pc = "visiting"
    /\ Len(other.stack) > 0
    /\ OtherTop.next <= Len(OtherTop.node.children)
OtherAdvanced == [other.stack EXCEPT ![Len(other.stack)].next = @ + 1]

OtherVisitChild ==
    /\ OtherHasNext
    /\ OtherTop.node.children[OtherTop.next].cls # "token"
    /\ other' = EnteredOther(other, OtherTop.node.children[OtherTop.next], OtherAdvanced)
    /\ UNCHANGED <<pc, all_rules, text, select, ignore, rules, lineage, violations, prev,
                   context, returned, stack, evals, visited, custom_rules, resolved, load>>

OtherVisitToken ==
    /\ OtherHasNext
    /\ OtherTop.node.children[OtherTop.next].cls = "token"
    /\ other' = [other EXCEPT !.stack = OtherAdvanced]
    /\ UNCHANGED <<pc, all_rules, text, select, ignore, rules, lineage, violations, prev,
                   context, returned, stack, evals, visited, custom_rules, resolved, load>>

OtherReturn ==
    /\ other.pc = "visiting"
    /\ Len(other.stack) > 0
    /\ OtherTop.next > Len(OtherTop.node.children)
    /\ other' = [other EXCEPT
                    !.st.lineage = IF OtherTop.node.type # None
                                   THEN SubSeq(@, 1, Len(@) - 1) ELSE @,
                    !.stack = SubSeq(@, 1, Len(@) - 1),
                    !.pc = IF Len(other.stack) = 1 THEN "done" ELSE "visiting"]
    /\ UNCHANGED <<pc, all_rules, text, select, ignore, rules, lineage, violations, prev,
                   context, returned, stack, evals, visited, custom_rules, resolved, load>>

NextTwo ==
    \/ CheckFirst \/ VisitChild \/ VisitToken \/ Return
    \/ CheckSecond \/ OtherVisitChild \/ OtherVisitToken \/ OtherReturn

SpecTwo == Init /\ [][NextTwo]_vars

-----------------------------------------------------------------------------
(* Loading the catalogue (rules.py:614-619) from a list of rules: the rules  *)
(* of the fixture and a second rule with the code D100.                      *)

\* The longest list of rules loaded.
MaxListed == 3

ListedPool == <<R_D100, [R_D100 EXCEPT !.select = <<s_dimension_group>>], R_M106, R_V100>>

RuleLists ==
    {[i \in 1..Len(c) |-> ListedPool[c[i]]] : c \in SeqsUpTo(MaxListed, Len(ListedPool))}

InitCatalog ==
    /\ pc = "idle"
    /\ all_rules = <<>>
    /\ text = Parse(<<>>)
    /\ select = <<>>
    /\ ignore = <<>>
    /\ rules = <<>>
    /\ lineage = <<>>
    /\ violations = <<>>
    /\ prev = None
    /\ context = NodeContext(<<>>, <<>>)
    /\ returned = NoCall
    /\ stack = <<>>
    /\ evals = <<>>
    /\ visited = <<>>
    /\ custom_rules = <<>>
    /\ resolved = <<>>
    /\ other = NoVisitor
    /\ load \in {[pc |-> "loading", list |-> l, raised |-> None] : l \in RuleLists}

\* The module is imported: the loop runs to its end or raises.
LoadCatalog ==
    /\ load.pc = "loading"
    /\ LET built == BuildByCode(load.list, <<>>)
       IN  IF built.raised # None
           THEN /\ load' = [load EXCEPT !.pc = "KeyError", !.raised = built.raised]
                /\ UNCHANGED all_rules
           ELSE /\ load' = [load EXCEPT !.pc = "loaded"]
                /\ all_rules' = built.by_code
    /\ UNCHANGED <<pc, text, select, ignore, rules, lineage, violations, prev,
                   context, returned, stack, evals, visited, custom_rules, resolved, other>>

SpecCatalog == InitCatalog /\ [][LoadCatalog]_vars

-----------------------------------------------------------------------------
(* block_has_valid_parameter called by itself (tests/test_utils.py:67-95).  *)

\* The nodes of the test, the fields and the views of the documents, a pair
\* and a list.
ParamNodes ==
    {FieldPool[i] : i \in 1..Len(FieldPool)}
    \cup {BlockNode(s_view, Some(s_test), ViewPool[i]) : i \in 1..Len(ViewPool)}
    \cup {PairNode(s_hidden, s_yes),
          ListNode(s_fields, <<SyntaxToken(s_abc)>>),
          BlockNode(s_dimension, Some(s_abc), <<BlockNode(s_hidden, None, <<>>)>>),
          BlockNode(s_dimension, Some(s_abc), <<PairNode(s_label, <<>>)>>)}

ParamNames == {s_hidden, s_primary_key, s_view_label, s_type, s_fields, s_label}

ParamValues == {None, Some(<<>>), Some(s_yes), Some(s_count)}

InitParam ==
    /\ pc = "idle"
    /\ all_rules = RULES_BY_CODE
    /\ text = Parse(<<>>)
    /\ select = <<>>
    /\ ignore = <<>>
    /\ rules = <<>>
    /\ lineage = <<>>
    /\ violations = <<>>
    /\ prev = None
    /\ context = NodeContext(<<>>, <<>>)
    /\ returned = NoCall
    /\ stack = <<>>
    /\ evals = <<>>
    /\ visited = <<>>
    /\ custom_rules = <<>>
    /\ resolved = <<>>
    /\ other = NoVisitor
    /\ load \in [pc : {"calling"}, block : ParamNodes, parameter_name : ParamNames,
                 value : ParamValues, negative : BOOLEAN, result : {FALSE}]

CallParam ==
    /\ load.pc = "calling"
    /\ load' = [load EXCEPT
                   !.pc = "returned",
                   !.result = block_has_valid_parameter(
                                  load.block, load.parameter_name, load.value, load.negative)]
    /\ UNCHANGED <<pc, all_rules, text, select, ignore, rules, lineage, violations, prev,
                   context, returned, stack, evals, visited, custom_rules, resolved, other>>

SpecParam == InitParam /\ [][CallParam]_vars

-----------------------------------------------------------------------------
(* Loading custom rules from a configuration file (Config.from_file, used   *)
(* by tests/test_check.py:107-202).  A rule record of the file is            *)
(* [type, fields, filters]: the rule kind it names, the keys it has, and the *)
(* function names of its filters.                                            *)

\* The longest list of rule records of a configuration file.
MaxRecords == 3

\* The rule classes of rules.py
RuleKinds == {"PatternMatchRule", "ParameterRule", "OrderRule", "DuplicateViewRule"}

\* The predicate functions of rules.py:192-250
PredicateNames ==
    {"get_child_by_type", "node_has_valid_class", "node_has_valid_type",
     "pair_has_valid_value", "node_has_at_least_one_valid_child",
     "block_has_valid_parameter"}

\* The dataclass fields without a default, in the order of the class
RequiredFields(kind) ==
    <<"title", "code", "rationale", "select", "filters">>
    \o (CASE kind = "PatternMatchRule" -> <<"regex">>
          [] kind = "ParameterRule" -> <<"criteria">>
          [] OTHER -> <<>>)

\* tests/test_check.py:26-51, 121-202: the records of the test files
RecordPool ==
    <<[type |-> "PatternMatchRule",
       fields |-> {"title", "code", "rationale", "select", "filters", "regex", "negative"},
       filters |-> <<"block_has_valid_parameter">>],
      [type |-> "NotARuleType",
       fields |-> {"title", "code", "rationale", "select", "filters", "regex", "negative"},
       filters |-> <<"block_has_valid_parameter">>],
      [type |-> "PatternMatchRule",
       fields |-> {"title", "code", "rationale", "select", "filters", "regex", "negative"},
       filters |-> <<"not_a_function">>],
      [type |-> "PatternMatchRule",
       fields |-> {"title", "rationale", "select", "regex", "negative"},
       filters |-> <<>>],
      [type |-> "OrderRule",
       fields |-> {"title", "code", "rationale", "select", "filters", "alphabetical"},
       filters |-> <<>>]>>

RecordLists ==
    {[i \in 1..Len(c) |-> RecordPool[c[i]]] : c \in SeqsUpTo(MaxRecords, Len(RecordPool))}

NoError == [error |-> "none", message |-> "", name |-> ""]

\* a record validated with every failure reported as InvalidConfig
ValidateRecord_AlwaysInvalidConfig(rec) ==
    LET unknown == {i \in 1..Len(rec.filters) : rec.filters[i] \notin PredicateNames}
        missing == {i \in 1..Len(RequiredFields(rec.type)) :
                        RequiredFields(rec.type)[i] \notin rec.fields}
    IN  IF rec.type \notin RuleKinds
        THEN [error |-> "InvalidConfig", message |-> "not a valid rule", name |-> rec.type]
        ELSE IF unknown # {}
        THEN [error |-> "InvalidConfig", message |-> "not a valid function",
              name |-> rec.filters[CHOOSE i \in unknown : \A j \in unknown : i <= j]]
        ELSE IF missing # {}
        THEN [error |-> "InvalidConfig", message |-> "not a valid rule", name |-> rec.type]
        ELSE NoError

\* One rule record validated and built: the kind must be a rule class, every
\* filter a predicate function, and the record must have the fields the class
\* requires.
ValidateRecord(rec) ==
    LET unknown == {i \in 1..Len(rec.filters) : rec.filters[i] \notin PredicateNames}
        missing == {i \in 1..Len(RequiredFields(rec.type)) :
                        RequiredFields(rec.type)[i] \notin rec.fields}
    IN  IF rec.type \notin RuleKinds
        THEN [error |-> "InvalidConfig", message |-> "not a valid rule", name |-> rec.type]
        ELSE IF unknown # {}
        THEN [error |-> "InvalidConfig", message |-> "not a valid function",
              name |-> rec.filters[CHOOSE i \in unknown : \A j \in unknown : i <= j]]
        ELSE IF missing # {}
        THEN [error |-> "InvalidRule", message |-> "missing required keyword-only argument",
              name |-> RequiredFields(rec.type)[CHOOSE i \in missing : \A j \in missing : i <= j]]
        ELSE NoError

\* Config.from_file: the records in the order of the file; the first failure
\* ends the loading
RECURSIVE from_file(_, _)
from_file(records, built) ==
    IF Len(records) = 0 THEN [raised |-> NoError, custom_rules |-> built]
    ELSE LET v == ValidateRecord(Head(records))
         IN  IF v.error # "none" THEN [raised |-> v, custom_rules |-> <<>>]
             ELSE from_file(Tail(records), Append(built, Head(records)))

InitConfig ==
    /\ pc = "idle"
    /\ all_rules = RULES_BY_CODE
    /\ text = Parse(<<>>)
    /\ select = <<>>
    /\ ignore = <<>>
    /\ rules = <<>>
    /\ lineage = <<>>
    /\ violations = <<>>
    /\ prev = None
    /\ context = NodeContext(<<>>, <<>>)
    /\ returned = NoCall
    /\ stack = <<>>
    /\ evals = <<>>
    /\ visited = <<>>
    /\ custom_rules = <<>>
    /\ resolved = <<>>
    /\ other = NoVisitor
    /\ load \in {[pc |-> "loading", list |-> l, raised |-> NoError] : l \in RecordLists}

LoadConfig ==
    /\ load.pc = "loading"
    /\ LET r == from_file(load.list, <<>>)
       IN  /\ load' = [load EXCEPT
                          !.pc = IF r.raised.error = "none" THEN "loaded" ELSE r.raised.error,
                          !.raised = r.raised]
           /\ custom_rules' = r.custom_rules
    /\ UNCHANGED <<pc, all_rules, text, select, ignore, rules, lineage, violations, prev,
                   context, returned, stack, evals, visited, resolved, other>>

SpecConfig == InitConfig /\ [][LoadConfig]_vars


-----------------------------------------------------------------------------
(* Configuration: choose_rules on its own, and resolve_overrides.           *)

\* The longest select, ignore and custom_rules tuples.
MaxCodes == 2
MaxCustom == 2

\* Codes of the fixture, and a code no rule has.
CodePool == <<"V100", "D100", "M110", "M106", "X999">>

CodeTuples == {[i \in 1..Len(c) |-> CodePool[c[i]]] : c \in SeqsUpTo(MaxCodes, Len(CodePool))}

\* tests/test_check.py:61-63, 76: dataclasses.replace gives a rule a new
\* select or a new code
CustomPool ==
    <<[R_D100 EXCEPT !.select = <<s_dimension_group>>],
      [R_D100 EXCEPT !.code = "D99999"],
      [R_M106 EXCEPT !.select = <<s_dimension>>]>>

\* Custom rules of a configuration have pairwise different codes.
CustomTuples ==
    {[i \in 1..Len(c) |-> CustomPool[c[i]]] :
        c \in {d \in SeqsUpTo(MaxCustom, Len(CustomPool)) :
                  \A i, j \in 1..Len(d) : i # j => CustomPool[d[i]].code # CustomPool[d[j]].code}}

\* a custom rule added whatever its code
Override_Appends(ruleset, custom) == Append(ruleset, custom)

\* One custom rule applied: it takes the place of the rule with its code, or
\* is added.
Override(ruleset, custom) ==
    IF \E i \in 1..Len(ruleset) : ruleset[i].code = custom.code
    THEN [i \in 1..Len(ruleset) |->
             IF ruleset[i].code = custom.code THEN custom ELSE ruleset[i]]
    ELSE Append(ruleset, custom)

RECURSIVE resolve_overrides(_, _)
resolve_overrides(ruleset, customs) ==
    IF Len(customs) = 0 THEN ruleset
    ELSE resolve_overrides(Override(ruleset, Head(customs)), Tail(customs))

InitChoose ==
    /\ pc = "idle"
    /\ all_rules = rules_by_code
    /\ select \in CodeTuples
    /\ ignore \in CodeTuples
    /\ text = Parse(<<>>)
    /\ rules = <<>>
    /\ lineage = <<>>
    /\ violations = <<>>
    /\ prev = None
    /\ context = NodeContext(<<>>, <<>>)
    /\ returned = NoCall
    /\ stack = <<>>
    /\ evals = <<>>
    /\ visited = <<>>
    /\ custom_rules = <<>>
    /\ resolved = <<>>
    /\ other = NoVisitor
    /\ load = NoLoad

ChooseRules ==
    /\ pc = "idle"
    /\ rules' \in choose_rules(all_rules, ignore, select)
    /\ pc' = "chosen"
    /\ UNCHANGED <<other, load, all_rules, text, select, ignore, lineage, violations, prev,
                   context, returned, stack, evals, visited, custom_rules, resolved>>

ResolveOverrides ==
    /\ pc = "chosen"
    /\ \E cs \in CustomTuples :
          /\ custom_rules' = cs
          /\ resolved' = resolve_overrides(rules, cs)
    /\ pc' = "resolved"
    /\ UNCHANGED <<other, load, all_rules, text, select, ignore, rules, lineage, violations, prev,
                   context, returned, stack, evals, visited>>

NextChoose == ChooseRules \/ ResolveOverrides

SpecChoose == InitChoose /\ [][NextChoose]_vars

-----------------------------------------------------------------------------
(* The tree, read without the visitor: every node of the document with the  *)
(* kinds on the path from the root to it and its nearest typed ancestor.    *)

Tree == Walk(text, <<>>, None)

\* The document and the blocks, pairs and lists: each has a line of its own.
At(tree, line) ==
    CHOOSE w \in tree : w.node.line = line /\ w.node.cls \notin {"token", "container"}

IsSuffix(s, l) == \E k \in 0..Len(l) : SubSeq(l, k + 1, Len(l)) = s

SelectorMatches(rule, kinds) ==
    \E s \in ToSet(rule.select) : IsSuffix(s, Join(kinds))

\* The lines of the nodes of a tree that are neither tokens nor containers,
\* a node before its descendants and the children in the order of the text.
RECURSIVE PreOrder(_)
RECURSIVE PreOrderAll(_, _)
PreOrder(node) ==
    IF node.cls = "token" THEN <<>>
    ELSE (IF node.cls = "container" THEN <<>> ELSE <<node.line>>)
         \o PreOrderAll(node.children, 1)
PreOrderAll(children, i) ==
    IF i > Len(children) THEN <<>>
    ELSE PreOrder(children[i]) \o PreOrderAll(children, i + 1)

RuleOf(code) == Get(rules, code)

Evals == ToSet(evals)

HasParam(block, name, value) ==
    \E i \in 1..Len(Items(block)) :
        /\ Items(block)[i].cls = "pair"
        /\ Items(block)[i].type = Some(name)
        /\ Items(block)[i].value = value

-----------------------------------------------------------------------------
(* Claims *)

\* What rules.py answers for the k-th turn of the loop: the rule applies to
\* the node with the lineage it was visited with.
AppliesAt(tree, e) == applies_to(RuleOf(e.code), At(tree, e.line).node, e.lin)

Reported(code, line) ==
    \E i \in 1..Len(violations) : violations[i][1] = code /\ violations[i][3] = line

\* C1: when a check has ended, a (rule.code, rule.title, line) is among the
\* violations iff the rule is of the active set, the node is neither a token
\* nor a container, the rule's selector matches the lineage, its filters hold
\* on the node and its followed_by fails on the node; stated for the
\* PatternMatchRules and ParameterRules, whose followed_by reads nothing of
\* the context.
C1_ViolationIffSelectedAppliesFails ==
    pc \in {"done", "error"} =>
        LET tree == Tree IN
        /\ \A w \in tree : \A i \in 1..Len(rules) :
              (/\ w.node.cls \in {"document", "block", "pair", "list"}
               /\ rules[i].cls \in {"PatternMatchRule", "ParameterRule"}
               /\ applies_to(rules[i], w.node, Join(w.kinds))
               /\ followed_by(rules[i], w.node, NodeContext(<<>>, <<>>)).res = "fail")
              => Reported(rules[i].code, w.node.line)
        /\ \A i \in 1..Len(violations) :
              \E w \in tree : \E j \in 1..Len(rules) :
                 /\ violations[i] = <<rules[j].code, rules[j].title, w.node.line>>
                 /\ w.node.cls \in {"document", "block", "pair", "list"}
                 /\ applies_to(rules[j], w.node, Join(w.kinds))

\* C2: a rule is selected for a node iff the dot-joined kinds on the path from
\* the root to the node end with one of the rule's selectors; the rule selecting
\* "measure.sql" is selected for a sql pair whose parent is a measure, at any
\* depth, and not for a sql pair whose parent is a dimension.
C2_SelectedIffLineageEndsWithSelector ==
    LET tree == Tree IN
    \A e \in Evals :
        LET w == At(tree, e.line)
        IN  /\ e.sel <=> SelectorMatches(RuleOf(e.code), w.kinds)
            /\ (e.code = "M110" /\ w.node.cls = "pair" /\ w.node.type = Some(s_sql)
                /\ w.parent # None) =>
                  /\ w.parent[1].type = Some(s_measure) => e.sel
                  /\ w.parent[1].type = Some(s_dimension) => ~e.sel

C2_Witness ==
    /\ \E e \in Evals :
          e.code = "M110" /\ e.sel /\ At(Tree, e.line).kinds = <<s_view, s_measure, s_sql>>
    /\ \E e \in Evals :
          e.code = "M110" /\ ~e.sel /\ At(Tree, e.line).node.type = Some(s_sql)

\* C3: no rule whose code is in ignore is in the rule set choose_rules returns.
C3_IgnoredCodeNeverChosen ==
    pc = "chosen" => \A i \in 1..Len(rules) : rules[i].code \notin ToSet(ignore)

\* C4: with a select that is not empty, choose_rules returns only rules whose
\* code is in select; with an empty select, every rule of the catalogue whose
\* code is not in ignore.
C4_SelectKeepsOnlySelected ==
    pc = "chosen" =>
        IF Len(select) > 0
        THEN \A i \in 1..Len(rules) : rules[i].code \in ToSet(select)
        ELSE \A c \in Keys(all_rules) \ ToSet(ignore) :
                \E i \in 1..Len(rules) : rules[i].code = c

\* C5: resolve_overrides returns one rule per code; every custom rule is in the
\* result and the rule of the rule set with its code is not; every rule of the
\* rule set whose code no custom rule has is in the result; nothing else is.
C5_CustomRuleReplacesByCode ==
    pc = "resolved" =>
        /\ \A i, j \in 1..Len(resolved) : i # j => resolved[i].code # resolved[j].code
        /\ \A c \in ToSet(custom_rules) :
              /\ c \in ToSet(resolved)
              /\ \A r \in ToSet(rules) : (r.code = c.code /\ r # c) => r \notin ToSet(resolved)
        /\ \A r \in ToSet(rules) :
              (\A c \in ToSet(custom_rules) : c.code # r.code) => r \in ToSet(resolved)
        /\ ToSet(resolved) \subseteq ToSet(rules) \cup ToSet(custom_rules)

C5_Witness ==
    /\ pc = "resolved"
    /\ \E c \in ToSet(custom_rules) : \E r \in ToSet(rules) : r.code = c.code /\ r # c
    /\ \E c \in ToSet(custom_rules) : \A r \in ToSet(rules) : r.code # c.code
    /\ \E r \in ToSet(rules) : \A c \in ToSet(custom_rules) : c.code # r.code

\* The comparison value of an evaluated block: its name.
NameAt(tree, line) == At(tree, line).node.name

\* The evaluations before the k-th that satisfy P, latest last.
Earlier(k, P(_)) == {j \in 1..(k - 1) : P(evals[j])}
Last(S) == CHOOSE j \in S : \A i \in S : i <= j

IsAlphabetical(code) == RuleOf(code).cls = "OrderRule" /\ RuleOf(code).alphabetical
IsFirstRule(code) ==
    RuleOf(code).cls = "OrderRule" /\ ~RuleOf(code).alphabetical /\ RuleOf(code).is_first

\* C6: an alphabetical OrderRule evaluated on a named node fails iff the rule
\* was evaluated on a node before and the node's name is not greater than the
\* name of the latest such node; otherwise, and on the first node it is
\* evaluated on, it passes.
C6_AlphabeticalFailsIffNotAfterPrevious ==
    LET tree == Tree IN
    \A k \in 1..Len(evals) :
        LET e == evals[k]
            before == Earlier(k, LAMBDA x : x.code = e.code /\ AppliesAt(tree, x))
        IN  (/\ IsAlphabetical(e.code) /\ AppliesAt(tree, e)
             /\ NameAt(tree, e.line) # None
             /\ \A j \in before : NameAt(tree, evals[j].line) # None) =>
                e.res = IF /\ before # {}
                           /\ ~StrGreater(NameAt(tree, e.line)[1],
                                          NameAt(tree, evals[Last(before)].line)[1])
                        THEN "fail" ELSE "pass"

\* C7: an is_first OrderRule fails on a node it is evaluated on (selected,
\* filters passing) iff it was evaluated on a node before in the traversal;
\* on the first such node it passes, whatever other rules are active.
C7_IsFirstFailsIffEarlierMatch ==
    LET tree == Tree IN
    \A k \in 1..Len(evals) :
        LET e == evals[k]
        IN  (IsFirstRule(e.code) /\ AppliesAt(tree, e)) =>
                e.res = IF Earlier(k, LAMBDA x : x.code = e.code /\ AppliesAt(tree, x)) # {}
                        THEN "fail" ELSE "pass"

IsDimensionBlock(node) == node.cls = "block" /\ node.type = Some(s_dimension)

\* C8: with D107 the only rule, when the check has ended a node of the
\* document is reported iff it is a dimension block with primary_key: yes and
\* a dimension block comes before it; dimension_group blocks before it do not
\* count, and no dimension without primary_key: yes is reported.
C8_PrimaryKeyAfterDimensionReported ==
    (rules = <<R_D107>> /\ pc \in {"done", "error"}) =>
        LET order == PreOrder(text)
            tree == Tree
        IN  \A k \in 1..Len(order) :
                LET n == At(tree, order[k]).node
                IN  Reported("D107", n.line) <=>
                        /\ IsDimensionBlock(n)
                        /\ HasParam(n, s_primary_key, s_yes)
                        /\ \E j \in 1..(k - 1) : IsDimensionBlock(At(tree, order[j]).node)

IsViewWithTable(node) ==
    /\ node.cls = "block" /\ node.type = Some(s_view)
    /\ get_child_by_type(node, s_sql_table_name) # None

\* The sql_table_name of a view: the value of its first sql_table_name item.
TableOf(view) == get_child_by_type(view, s_sql_table_name)[1].value

\* C9: with V112 the only rule, when the check of a document of views that
\* all have a sql_table_name has ended, a view is reported iff an earlier
\* view of the document has the same sql_table_name: the first view of a
\* table is not flagged, every later one is.
C9_ViewFailsIffTableSeen ==
    (/\ rules = <<R_V112>> /\ pc \in {"done", "error"}
     /\ \A i \in 1..Len(Items(text)) : IsViewWithTable(Items(text)[i])) =>
        \A i \in 1..Len(Items(text)) :
            Reported("V112", Items(text)[i].line) <=>
                \E j \in 1..(i - 1) : TableOf(Items(text)[j]) = TableOf(Items(text)[i])

\* C10: DuplicateViewRule.followed_by on a view block that has no
\* sql_table_name passes: nothing is raised, the node is no violation.
C10_NoTableVacuouslyPasses ==
    (/\ returned.pc = "returned"
     /\ returned.rule.cls = "DuplicateViewRule"
     /\ returned.node.cls = "block" /\ returned.node.type = Some(s_view)
     /\ get_child_by_type(returned.node, s_sql_table_name) = None)
    => returned.res = "pass"

IsFixedOrder(r) ==
    r.cls = "OrderRule" /\ ~r.alphabetical /\ ~r.is_first /\ Len(r.order) > 0

\* {a, b} is one of the adjacent transitions {v_i, v_i+1} of the order list.
IsTransition(order, a, b) ==
    \E i \in 1..(Len(order) - 1) : {a, b} = {order[i], order[i + 1]}

\* C11: a fixed-order OrderRule passes on a node, with no previous node of
\* the rule in the context, iff the node's value is the first value of the
\* order; with a previous node it passes iff the values of the previous node
\* and of this node are an adjacent pair of the order.
C11_FixedOrderPassesOnAdjacentPairs ==
    (/\ returned.pc = "returned"
     /\ IsFixedOrder(returned.rule)
     /\ returned.node.cls = "block") =>
        LET r == returned.rule
            p == DictGet(context.previous_node, r.code)
        IN  returned.res = "pass" <=>
                IF p = None
                THEN returned.node.name = Some(r.order[1])
                ELSE /\ returned.node.name # None
                     /\ p[1].name # None
                     /\ IsTransition(r.order, p[1].name[1], returned.node.name[1])

IsOrderRule(code) == RuleOf(code).cls = "OrderRule"

\* The line of the previous node recorded after the k-th evaluation (0: none).
After(k) == IF k < Len(evals) THEN evals[k + 1].prev ELSE LineOf(prev)

\* C12: after an OrderRule was evaluated on a node, the previous node recorded
\* for it is that node, whether it passed or failed; what is evaluated on a
\* node the rule does not select leaves the record of the rule as it was.
C12_LastNodeIsTheEvaluatedNode ==
    LET tree == Tree IN
    /\ \A k \in 1..Len(evals) :
          (IsOrderRule(evals[k].code) /\ AppliesAt(tree, evals[k]))
              => After(k) = evals[k].line
    /\ \A j \in 1..Len(evals) :
          (IsOrderRule(evals[j].code) /\ ~evals[j].sel) =>
              \A k \in 1..Len(evals) :
                  evals[k].line = evals[j].line => After(k) = evals[k].prev

\* The context that holds, under the code of the k-th evaluation, the latest
\* earlier node its rule applied to.
OwnContext(tree, k) ==
    LET before == Earlier(k, LAMBDA x : x.code = evals[k].code /\ AppliesAt(tree, x))
    IN  IF before = {} THEN NodeContext(<<>>, <<>>)
        ELSE NodeContext([c \in {evals[k].code} |-> At(tree, evals[Last(before)].line).node],
                         <<>>)

\* C13: an OrderRule is evaluated against the latest earlier node evaluated
\* under its own code, never the node itself or a node of another rule: its
\* verdict on a node is the one followed_by gives with that previous node,
\* alone or together with other rules.
C13_PreviousNodePerRuleCode ==
    LET tree == Tree IN
    \A k \in 1..Len(evals) :
        LET e == evals[k]
        IN  (IsOrderRule(e.code) /\ AppliesAt(tree, e)) =>
                /\ e.prev # e.line
                /\ e.res = followed_by(RuleOf(e.code), At(tree, e.line).node,
                                       OwnContext(tree, k)).res

\* The text a pattern is matched against: the value of a pair, the name of a
\* block, nothing for any other node.
TextOf(node) ==
    IF node.cls = "pair" THEN Some(node.value)
    ELSE IF node.cls = "block" THEN node.name
    ELSE None

\* C14: PatternMatchRule.followed_by never raises; on a node without text
\* (neither a pair nor a block with a name) it passes; with negative = FALSE
\* it passes on a node with text iff its regular expression matches somewhere
\* in the text.
C14_PatternMatchExtractsValueOrName ==
    (returned.pc = "returned" /\ returned.rule.cls = "PatternMatchRule") =>
        LET r == returned.rule
            t == TextOf(returned.node)
        IN  /\ returned.res \in {"pass", "fail"}
            /\ t = None => returned.res = "pass"
            /\ (t # None /\ ~r.negative) =>
                  (returned.res = "pass" <=> Search(r.regex, t[1]))

C14_Witness ==
    /\ returned.pc = "returned"
    /\ returned.rule = R_D101
    /\ returned.applies
    /\ returned.node.name = Some(s_Abd)
    /\ returned.res = "fail"

\* The rule with its negative flag turned.
Negated(rule) == [rule EXCEPT !.negative = ~@]

\* C15: the verdict of a ParameterRule, and of a PatternMatchRule on a node
\* with text, is the opposite of the verdict of the same rule with the negative
\* flag turned; on a node without text a PatternMatchRule passes either way.
C15_NegativeInvertsTheVerdict ==
    (/\ returned.pc = "returned"
     /\ returned.rule.cls \in {"PatternMatchRule", "ParameterRule"}) =>
        LET turned == followed_by(Negated(returned.rule), returned.node, context).res
        IN  /\ returned.res \in {"pass", "fail"}
            /\ turned \in {"pass", "fail"}
            /\ IF returned.rule.cls = "PatternMatchRule" /\ TextOf(returned.node) = None
               THEN returned.res = "pass" /\ turned = "pass"
               ELSE turned # returned.res

C15_Witness ==
    /\ returned.pc = "returned"
    /\ returned.rule = R_L100
    /\ returned.applies
    /\ returned.node.value = s_Is_Yes_No
    /\ returned.res = "fail"

IsMeasureBlock(node) == node.cls = "block" /\ node.type = Some(s_measure)

\* C16: with M100 the only rule, when the check has ended a node of the
\* document is reported iff it is a measure block with the parameter type:
\* count whose name does not start with count_, and it is reported once;
\* measures of another type are not reported.
C16_CountMeasureWithoutPrefixReported ==
    (rules = <<R_M100>> /\ pc \in {"done", "error"}) =>
        LET order == PreOrder(text)
            tree == Tree
        IN  /\ \A k \in 1..Len(order) :
                  LET n == At(tree, order[k]).node
                  IN  Reported("M100", n.line) <=>
                          /\ IsMeasureBlock(n)
                          /\ HasParam(n, s_type, s_count)
                          /\ n.name # None
                          /\ ~StartsWith(n.name[1], <<"c", "o", "u", "n", "t", "_">>)
            /\ \A i, j \in 1..Len(violations) : violations[i] = violations[j] => i = j

\* A check run by itself, as one walk: the fields of a fresh visitor after
\* the tree accepted it.
RECURSIVE WalkAlone(_, _, _)
RECURSIVE WalkChildren(_, _, _, _)
WalkAlone(rs, node, st) ==
    IF st.raised \/ node.cls = "token" THEN st
    ELSE LET st2 == WalkChildren(rs, node.children, 1, Enter(rs, node, st))
         IN  IF st2.raised \/ node.type = None THEN st2
             ELSE [st2 EXCEPT !.lineage = SubSeq(@, 1, Len(@) - 1)]
WalkChildren(rs, children, i, st) ==
    IF i > Len(children) \/ st.raised THEN st
    ELSE WalkChildren(rs, children, i + 1, WalkAlone(rs, children[i], st))

Alone(rs, tree) ==
    WalkAlone(rs, tree,
              [lineage |-> <<>>, violations |-> <<>>, prev |-> None,
               evals |-> <<>>, visited |-> <<>>, raised |-> FALSE])

IsPrefix(s, t) == Len(s) <= Len(t) /\ SubSeq(t, 1, Len(s)) = s

\* What a visitor in state p, with violations v and the nodes n met, shows of
\* a check of tree with rs run alone.
AsAlone(p, v, n, rs, tree) ==
    LET a == Alone(rs, tree)
    IN  /\ p = "visiting" => (IsPrefix(v, a.violations) /\ IsPrefix(n, a.visited))
        /\ p = "done" => (v = a.violations /\ n = a.visited /\ ~a.raised)
        /\ p = "error" => (v = a.violations /\ n = a.visited /\ a.raised)

\* C17: two invocations of check with the same tree, select and ignore end
\* alike: the resolved rule tuples are the same tuple, and the violations are
\* the same in the same order.
C17_SameInputsSameViolations ==
    (/\ pc \in {"done", "error"} /\ other.pc \in {"done", "error"}
     /\ text = other.text /\ select = other.select /\ ignore = other.ignore)
    => /\ pc = other.pc
       /\ rules = other.rules
       /\ violations = other.st.violations

\* C18: each of two checks, run one after the other or interleaved node by
\* node, meets the nodes and reports what it does when it runs alone on a
\* fresh visitor.
C18_ChecksDoNotInterfere ==
    /\ pc # "idle" => AsAlone(pc, violations, visited, rules, text)
    /\ other.pc # "idle" =>
          AsAlone(other.pc, other.st.violations, other.st.visited, other.rules, other.text)

C18_Witness ==
    /\ pc = "visiting" /\ other.pc = "visiting"
    /\ text # other.text
    /\ rules = other.rules
    /\ Len(lineage) > 1 /\ Len(other.st.lineage) > 1
    /\ lineage # other.st.lineage

\* Two places of the list hold rules of one code.
HasDuplicateCode(list) ==
    \E i, j \in 1..Len(list) : i # j /\ list[i].code = list[j].code

\* C19: loading a list of rules in which two rules have the same code raises,
\* at load time, and leaves no catalogue; loading any other list gives a
\* catalogue with every listed rule under its code and one rule per code.
C19_DuplicateCodeFailsAtLoad ==
    load.pc # "loading" =>
        IF HasDuplicateCode(load.list)
        THEN /\ load.pc = "KeyError"
             /\ load.raised # None
             /\ \E i, j \in 1..Len(load.list) :
                   i < j /\ load.list[i].code = load.raised[1]
                         /\ load.list[j].code = load.raised[1]
             /\ all_rules = <<>>
        ELSE /\ load.pc = "loaded"
             /\ \A r \in ToSet(load.list) :
                   /\ r.code \in Keys(all_rules)
                   /\ Get(all_rules, r.code) = r
             /\ \A i, j \in 1..Len(all_rules) :
                   all_rules[i].code = all_rules[j].code => i = j
             /\ ToSet(all_rules) = ToSet(load.list)

C19_Witness ==
    /\ load.pc = "KeyError"
    /\ Len(load.list) = 3
    /\ load.list[1].code = load.list[3].code
    /\ load.list[1] # load.list[3]

\* The first record of the list with an unknown kind, an unknown filter
\* function or a missing field (0: none).
IsFaulty(rec) ==
    \/ rec.type \notin RuleKinds
    \/ \E i \in 1..Len(rec.filters) : rec.filters[i] \notin PredicateNames
    \/ \E f \in ToSet(RequiredFields(rec.type)) : f \notin rec.fields
FirstFaulty(list) ==
    IF \E i \in 1..Len(list) : IsFaulty(list[i])
    THEN CHOOSE i \in 1..Len(list) : IsFaulty(list[i]) /\ \A j \in 1..(i - 1) : ~IsFaulty(list[j])
    ELSE 0

\* C20: loading a file fails with InvalidConfig "not a valid rule" for an
\* unknown rule kind, with InvalidConfig "not a valid function" for an unknown
\* filter function, and with InvalidRule naming the field for a record without
\* a required field; a failed load gives no rules, and a file without such a
\* record loads every rule.
C20_InvalidRecordsAbortTheLoad ==
    load.pc # "loading" =>
        LET k == FirstFaulty(load.list) IN
        IF k = 0
        THEN load.pc = "loaded" /\ custom_rules = load.list
        ELSE LET rec == load.list[k] IN
             /\ custom_rules = <<>>
             /\ rec.type \notin RuleKinds =>
                   /\ load.pc = "InvalidConfig"
                   /\ load.raised.message = "not a valid rule"
                   /\ load.raised.name = rec.type
             /\ (rec.type \in RuleKinds /\ ToSet(rec.filters) \ PredicateNames # {}) =>
                   /\ load.pc = "InvalidConfig"
                   /\ load.raised.message = "not a valid function"
                   /\ load.raised.name \in ToSet(rec.filters) \ PredicateNames
             /\ (rec.type \in RuleKinds /\ ToSet(rec.filters) \subseteq PredicateNames) =>
                   /\ load.pc = "InvalidRule"
                   /\ load.raised.name \in ToSet(RequiredFields(rec.type)) \ rec.fields

C20_Witness ==
    /\ load.pc = "InvalidRule"
    /\ load.raised.name = "code"
    /\ Len(load.list) = 3
    /\ FirstFaulty(load.list) = 2
    /\ load.list[3].type = "NotARuleType"

-----------------------------------------------------------------------------
\* C21: when the walk has ended, by return or by exception, the nodes the
\* rules have met are exactly the pre-order of the document's nodes that are
\* neither tokens nor containers, each once, and each of them met every active
\* rule once, in the order of the rules, before the next node met any; while
\* the walk runs they are a beginning of that pre-order.
C21_SinglePreOrderWalk ==
    pc \in {"visiting", "done", "error"} =>
        LET order == PreOrder(text)
            R == Len(rules)
        IN
        /\ IsPrefix(visited, order)
        /\ \A i, j \in 1..Len(order) : i # j => order[i] # order[j]
        /\ \A i \in 1..Len(evals) :
              LET n == ((i - 1) \div R) + 1
                  k == ((i - 1) % R) + 1
              IN  /\ n <= Len(visited)
                  /\ evals[i].line = visited[n]
                  /\ evals[i].code = rules[k].code
        /\ pc \in {"done", "error"} =>
              /\ visited = order
              /\ Len(evals) = Len(visited) * R
              /\ \A e \in Evals : e.res # "raise"

-----------------------------------------------------------------------------
Disciplines(a) ==
    (IF a.alphabetical THEN 1 ELSE 0) + (IF a.is_first THEN 1 ELSE 0)
    + (IF Len(a.order) > 0 THEN 1 ELSE 0)

\* C22: an OrderRule is constructed iff exactly one of alphabetical, is_first
\* and order is set, so that no call of followed_by of a constructed OrderRule
\* ends for want of a sort order.
C22_ExactlyOneDiscipline ==
    /\ load.pc \in {"constructed", "ValueError"} =>
          (load.pc = "constructed" <=> Disciplines(load.args) = 1)
    /\ (returned.pc = "returned" /\ Disciplines(returned.rule) = 0)
          => returned.res # "raise"

-----------------------------------------------------------------------------
\* The value an OrderRule compares of the node at a line: None when the node
\* has none.
ValueAt(tree, code, line) == OrderRule_get_node_value(RuleOf(code), At(tree, line).node)

\* C23: an alphabetical OrderRule evaluated on a node with a previous node of
\* the rule recorded, when one of the two has no value to compare, raises: the
\* walk ends in the error, nothing is reported for the node and check returns
\* no violations; with no previous node recorded the node passes.
C23_MissingValueRaises ==
    LET tree == Tree IN
    \A k \in 1..Len(evals) :
        LET e == evals[k]
            before == Earlier(k, LAMBDA x : x.code = e.code /\ AppliesAt(tree, x))
        IN  (IsAlphabetical(e.code) /\ AppliesAt(tree, e)) =>
                /\ before = {} => e.res = "pass"
                /\ (/\ before # {}
                    /\ \/ ~Truthy(ValueAt(tree, e.code, e.line))
                       \/ ~Truthy(ValueAt(tree, e.code, evals[Last(before)].line)))
                   => /\ e.res = "raise"
                      /\ pc = "error"
                      /\ k = Len(evals)
                      /\ \A i \in 1..Len(violations) :
                            ~(violations[i][1] = e.code /\ violations[i][3] = e.line)

-----------------------------------------------------------------------------
\* Some direct parameter of the block has the kind, and the value when one is
\* asked for (None and the empty string ask for none).
HasDirectParameter(block, name, value) ==
    \E i \in 1..Len(Items(block)) :
        LET item == Items(block)[i]
        IN  /\ item.type = Some(name)
            /\ (value # None /\ value # Some(<<>>)) =>
                   (item.cls = "pair" /\ item.value = value[1])

\* C24: block_has_valid_parameter is false for a node that is no block,
\* whatever negative is; for a block with negative false it is true iff a
\* direct parameter of the block has the kind and, when a value is given, is
\* a pair of that value; with negative true it is the opposite.
C24_BlockHasValidParameter ==
    load.pc = "returned" =>
        IF load.block.cls # "block" THEN load.result = FALSE
        ELSE load.result =
                (HasDirectParameter(load.block, load.parameter_name, load.value)
                     # load.negative)

C24_Witness ==
    /\ load.pc = "returned"
    /\ load.block.cls = "block"
    /\ load.value = Some(s_yes)
    /\ load.negative
    /\ load.result
    /\ \E i \in 1..Len(Items(load.block)) :
          /\ Items(load.block)[i].type = Some(load.parameter_name)
          /\ Items(load.block)[i].cls = "block"

-----------------------------------------------------------------------------
\* C25: V111 fails on a view, which is how the view comes to be reported, iff
\* no direct parameter of the view is a view_label.
C25_ViewWithoutViewLabelReported ==
    (/\ returned.pc = "returned"
     /\ returned.rule = R_V111
     /\ returned.node.cls = "block" /\ returned.node.type = Some(s_view)) =>
        /\ returned.applies
        /\ returned.res = "fail" <=>
              ~\E i \in 1..Len(Items(returned.node)) :
                   Items(returned.node)[i].type = Some(s_view_label)

-----------------------------------------------------------------------------
\* The node is the first dimension among the parameters of the view that
\* holds it.
FirstDimensionOfItsView(w) ==
    /\ w.parent # None
    /\ w.parent[1].type = Some(s_view)
    /\ IsDimensionBlock(w.node)
    /\ \A i \in 1..Len(Items(w.parent[1])) :
          LET item == Items(w.parent[1])[i]
          IN  IsDimensionBlock(item) => item.line >= w.node.line

\* C26: with D107 the only rule, a primary key dimension that is the first
\* dimension of its view passes and is not reported, whatever the views
\* before it hold.
C26_PrimaryKeyFirstInItsViewNotReported ==
    LET tree == Tree IN
    \A e \in Evals :
        (/\ Len(rules) = 1
         /\ e.code = "D107" /\ AppliesAt(tree, e)
         /\ FirstDimensionOfItsView(At(tree, e.line))) =>
            /\ e.res = "pass"
            /\ ~Reported("D107", e.line)

-----------------------------------------------------------------------------
\* The kinds of the typed nodes whose calls of _visit are active, outermost
\* first.
RECURSIVE KindsOf(_)
KindsOf(stk) ==
    IF Len(stk) = 0 THEN <<>>
    ELSE KindsOf(SubSeq(stk, 1, Len(stk) - 1))
         \o (IF stk[Len(stk)].node.type # None THEN <<stk[Len(stk)].node.type[1]>> ELSE <<>>)

\* C27: the lineage a node is evaluated with is the dot-joined kinds of the
\* typed nodes on the path from the root to the node, the node's included;
\* while the walk runs the lineage holds the kinds of the nodes whose visit
\* has not returned, and it is empty when the walk has ended, by return or by
\* exception.
C27_LineageIsThePathOfKinds ==
    /\ LET tree == Tree IN
       \A e \in Evals : e.lin = Join(At(tree, e.line).kinds)
    /\ pc = "visiting" => lineage = KindsOf(stack)
    /\ pc \in {"done", "error"} => lineage = <<>>

-----------------------------------------------------------------------------
\* The selector is the dot-joined last kinds of the path, whole kinds only.
EndsWithWholeKinds(selector, kinds) ==
    \E k \in 0..(Len(kinds) - 1) : Join(SubSeq(kinds, k + 1, Len(kinds))) = selector

\* C28: a rule is selected for a node only when one of its selectors is made
\* of the last whole kinds of the node's lineage; the selector "label" is not
\* selected for a view_label.
C28_SelectorMatchesWholeKinds ==
    LET tree == Tree IN
    \A e \in Evals :
        e.sel => \E s \in ToSet(RuleOf(e.code).select) :
                    EndsWithWholeKinds(s, At(tree, e.line).kinds)

-----------------------------------------------------------------------------
\* C29: a call of followed_by keeps every entry of table_to_view as it is and
\* adds at most one, the table of the view it was called on mapped to the
\* view's name, and only a DuplicateViewRule that passes on a block adds one;
\* the calls of the other rules, and failing ones, leave the map as it was.
C29_TableToViewOnlyGrows ==
    [][returned'.pc = "returned" =>
        LET old == context.table_to_view
            new == context'.table_to_view
            r == returned'
            adds == r.rule.cls = "DuplicateViewRule" /\ r.res = "pass" /\ r.node.cls = "block"
        IN  /\ \A t \in DOMAIN old : t \in DOMAIN new /\ new[t] = old[t]
            /\ Cardinality(DOMAIN new \ DOMAIN old) <= 1
            /\ \A t \in DOMAIN new \ DOMAIN old :
                  /\ adds
                  /\ HasParam(r.node, s_sql_table_name, t)
                  /\ new[t] = r.node.name[1]
            /\ ~adds => new = old
    ]_vars

C29_Witness ==
    /\ returned.pc = "returned"
    /\ returned.rule = R_V112
    /\ returned.res = "fail"
    /\ returned.node.name = Some(s_users)
    /\ context.table_to_view = (s_sessions :> s_xyz) @@ (s_orders :> s_abc)

====
